---- MODULE Spec2Model ----
(***************************************************************************)
(* Turn engine of the Uno rules engine (src/src/game.rs, GameState).       *)
(*                                                                         *)
(* crate::card (Card, Deck) and crate::player (Player) are not part of     *)
(* src/; they are modelled from their contract in spec.md section 3, 4.3,  *)
(* 6 and the glossary.  Deck::shuffle leaves the pile in an arbitrary      *)
(* order and the engine observes the order of the pile only through draw,  *)
(* so the pile is kept as a bag and a draw takes an arbitrary card of it   *)
(* (the choice of the permutation is deferred to the draw).  A hand is a   *)
(* Vec<Card> that the engine only filters, searches by value and extends,  *)
(* so it is kept as a bag as well.  Of the discard pile the engine reads   *)
(* the last element and the length, and drains all of it into the shuffled *)
(* pile, so it is kept as its last element (top) over the bag of the cards *)
(* under it.                                                               *)
(***************************************************************************)
EXTENDS Integers, Sequences, FiniteSets, Bags, TLC

(* ------------------------------ bounds -------------------------------- *)
\* Largest roster handed to GameState::new.
MaxPlayers == 3
\* Cards dealt to each player: the 7 of game.rs:51, scaled with the deck.
HandSize == 1

(* ------------------------------ cards --------------------------------- *)
NoColor == "none"

Red == "red"

Blue == "blue"

Number(c, r) == [type |-> "Number", color |-> c, rank |-> r]

Skip(c) == [type |-> "Skip", color |-> c, rank |-> 0]

Reverse(c) == [type |-> "Reverse", color |-> c, rank |-> 0]

DrawTwo(c) == [type |-> "DrawTwo", color |-> c, rank |-> 0]

Wild == [type |-> "Wild", color |-> NoColor, rank |-> 0]

DrawFour == [type |-> "DrawFour", color |-> NoColor, rank |-> 0]

\* A value that is no card: Option::None, an unset local.
NoCard == [type |-> "None", color |-> NoColor, rank |-> 0]

Cards ==
    {Number(Red, 0), Skip(Red), Reverse(Red), Reverse(Blue), DrawTwo(Red),
     Wild, DrawFour}

\* Deck::generate(): the standard composition scaled down: the red 0, Skip
\* and Reverse, the two red DrawTwo, the blue Reverse, a Wild and a DrawFour.
Generate == [c \in Cards |-> IF c.type = "DrawTwo" THEN 2 ELSE 1]

IsStack(c) == c.type \in {"DrawTwo", "DrawFour"}

\* Card::can_play_on(other): same colour, same rank for Numbers, same type for
\* action cards, or a Wild / DrawFour.
CanPlayOn(c, other) ==
    \/ c.type \in {"Wild", "DrawFour"}
    \/ c.color # NoColor /\ c.color = other.color
    \/ c.type = "Number" /\ other.type = "Number" /\ c.rank = other.rank
    \/ c.type # "Number" /\ c.type = other.type

(* ------------------------------ bags ---------------------------------- *)
Size(b) == BagCardinality(b)

One(c) == SetToBag({c})

\* The cards of a hand that are among `keep`, as often as the hand holds them:
\* Iterator::filter over a Vec<Card>, on the bag of its elements.
Filter(b, keep) == [c \in BagToSet(b) \cap keep |-> b[c]]

\* Deck::draw_multiple(n) on a pile that holds at least n cards: any n of them.
DrawMultiple(pile, n) == {d \in SubBag(pile) : Size(d) = n}

U8(n) == n % 256

\* Bag of the cards of a Vec<Card> kept as [top, under].
All(v) == IF v.top = NoCard THEN EmptyBag ELSE v.under (+) One(v.top)

\* vec![]
Empty == [top |-> NoCard, under |-> EmptyBag]

\* Vec::len
Length(v) == Size(All(v))

\* Vec::push
Push(v, c) == [top |-> c, under |-> All(v)]

VARIABLES
    deck,            \* GameState.deck: the draw pile
    discard,         \* GameState.discard
    players,         \* GameState.players: roster index -> hand
    current_player,  \* GameState.current_player
    direction,       \* GameState.direction
    to_draw,         \* GameState.to_draw
    pc,              \* position in GameState::start
    dealt,           \* hands filled so far by the deal loop
    top_card,        \* local top_card of the seed loop
    recycled,        \* the branch ensure_drawable_deck took in the latest turn
    supplemented,    \* whether a supplementary deck was ever appended
    event,           \* how the latest turn ended
    acted,           \* the player of the latest turn, or -1
    skipped,         \* the player told observe_turn_skip(None) last turn, or -1
    reverses,        \* Reverse effects applied so far
    winner           \* the player of the "won!" exit, or -1

vars ==
    <<deck, discard, players, current_player, direction, to_draw, pc, dealt,
      top_card, recycled, supplemented, event, acted, skipped, reverses,
      winner>>

\* self.players.len()
PlayersLen == Cardinality(DOMAIN players)

\* GameState::new
Init ==
    /\ deck = Generate
    /\ discard = Empty
    /\ \E n \in 1..MaxPlayers : players = [i \in 0..(n - 1) |-> EmptyBag]
    /\ current_player = 0
    /\ direction = "Clockwise"
    /\ to_draw = 0
    /\ pc = "deal"
    /\ dealt = 0
    /\ top_card = NoCard
    /\ recycled = "no"
    /\ supplemented = FALSE
    /\ event = "none"
    /\ acted = -1
    /\ skipped = -1
    /\ reverses = 0
    /\ winner = -1

(* ------------------------------ setup --------------------------------- *)
\* One iteration of the deal loop: the next hand in roster order takes
\* HandSize cards of the pile.  On a pile that holds fewer, draw_multiple
\* either gives what the pile has or fails, and the thread panics.
Deal ==
    /\ pc = "deal"
    /\ dealt < PlayersLen
    /\ dealt' = dealt + 1
    /\ IF Size(deck) >= HandSize
       THEN /\ \E d \in DrawMultiple(deck, HandSize) :
                  /\ deck' = deck (-) d
                  /\ players' = [players EXCEPT ![dealt] = @ (+) d]
            /\ UNCHANGED <<pc, event>>
       ELSE \/ /\ deck' = EmptyBag
               /\ players' = [players EXCEPT ![dealt] = @ (+) deck]
               /\ UNCHANGED <<pc, event>>
            \/ /\ pc' = "panicked"
               /\ event' = "short"
               /\ UNCHANGED <<deck, players>>
    /\ UNCHANGED <<discard, current_player, direction, to_draw, top_card,
                   recycled, supplemented, acted, skipped, reverses, winner>>

\* The deal loop is over: the seed loop starts.
DealDone ==
    /\ pc = "deal"
    /\ dealt = PlayersLen
    /\ pc' = "seed"
    /\ UNCHANGED <<deck, discard, players, current_player, direction, to_draw,
                   dealt, top_card, recycled, supplemented, event, acted,
                   skipped, reverses, winner>>

\* A seed loop that ends on an empty pile instead of panicking.
SeedSkipsEmpty ==
    /\ pc = "seed"
    /\ IF deck = EmptyBag
       THEN /\ pc' = "turn"
            /\ UNCHANGED <<deck, discard, top_card, event>>
       ELSE \E c \in BagToSet(deck) :
               IF c.type \in {"Wild", "DrawFour"}
               THEN /\ top_card' = c
                    /\ deck' = (deck (-) One(c)) (+) One(c)
                    /\ UNCHANGED <<discard, pc, event>>
               ELSE /\ top_card' = NoCard
                    /\ deck' = deck (-) One(c)
                    /\ discard' = Push(discard, c)
                    /\ pc' = "turn"
                    /\ UNCHANGED event
    /\ UNCHANGED <<players, current_player, direction, to_draw, dealt,
                   recycled, supplemented, acted, skipped, reverses, winner>>

\* A seed loop that takes whatever card it draws as the first discard.
SeedAnyCard ==
    /\ pc = "seed"
    /\ IF deck = EmptyBag
       THEN /\ pc' = "panicked"
            /\ event' = "no_card"
            /\ UNCHANGED <<deck, discard, top_card>>
       ELSE \E c \in BagToSet(deck) :
               /\ top_card' = NoCard
               /\ deck' = deck (-) One(c)
               /\ discard' = Push(discard, c)
               /\ pc' = "turn"
               /\ UNCHANGED event
    /\ UNCHANGED <<players, current_player, direction, to_draw, dealt,
                   recycled, supplemented, acted, skipped, reverses, winner>>

\* One iteration of the seed loop.  draw().unwrap() panics on an empty pile;
\* a Wild or DrawFour goes back into the pile at some position
\* (reinsert_random); any other card becomes the first discard and ends the
\* loop, and the local top_card with it.
Seed ==
    /\ pc = "seed"
    /\ IF deck = EmptyBag
       THEN /\ pc' = "panicked"
            /\ event' = "no_card"
            /\ UNCHANGED <<deck, discard, top_card>>
       ELSE \E c \in BagToSet(deck) :
               IF c.type \in {"Wild", "DrawFour"}
               THEN /\ top_card' = c
                    /\ deck' = (deck (-) One(c)) (+) One(c)
                    /\ UNCHANGED <<discard, pc, event>>
               ELSE /\ top_card' = NoCard
                    /\ deck' = deck (-) One(c)
                    /\ discard' = Push(discard, c)
                    /\ pc' = "turn"
                    /\ UNCHANGED event
    /\ UNCHANGED <<players, current_player, direction, to_draw, dealt,
                   recycled, supplemented, acted, skipped, reverses, winner>>

(* --------------------------- deck recycler ---------------------------- *)
\* ensure_drawable_deck: the branch taken.
EnsureBranch(d, disc, n) ==
    IF U8(Size(d)) >= n THEN "no"
    ELSE IF U8(Length(disc)) >= n THEN "discard"
    ELSE "supplementary"

\* ensure_drawable_deck without its supplementary deck.
EnsureDeckNoSupplement(d, disc, n) ==
    IF U8(Size(d)) >= n THEN d
    ELSE IF U8(Length(disc)) >= n THEN d (+) All(disc)
    ELSE d

\* ensure_drawable_deck draining the discard pile without extending the pile.
EnsureDeckDrops(d, disc, n) ==
    IF U8(Size(d)) >= n THEN d
    ELSE IF U8(Length(disc)) >= n THEN d
    ELSE d (+) Generate

\* ensure_drawable_deck: the pile after the call.
EnsureDeck(d, disc, n) ==
    IF U8(Size(d)) >= n THEN d
    ELSE IF U8(Length(disc)) >= n THEN d (+) All(disc)
    ELSE d (+) Generate

\* ensure_drawable_deck draining the discard pile up to its last card.
EnsureDiscardKeepsTop(d, disc, n) ==
    IF U8(Size(d)) >= n THEN disc ELSE [top |-> disc.top, under |-> EmptyBag]

\* ensure_drawable_deck: the discard pile after the call; drain(..len) empties
\* it in both recycling branches.
EnsureDiscard(d, disc, n) ==
    IF U8(Size(d)) >= n THEN disc ELSE Empty

(* ----------------------------- rotation ------------------------------- *)
\* next_player stepping back from the first seat without wrapping around.
NextPlayerNoWrap(index, dir, len) ==
    IF dir = "Clockwise" THEN (index + 1) % len ELSE index - 1

\* next_player
NextPlayer(index, dir, len) ==
    IF dir = "Clockwise" THEN (index + 1) % len
    ELSE IF index = 0 THEN len - 1 ELSE index - 1

(* ------------------------- playable-hand filter ----------------------- *)
\* get_playable_hand without its stacking rule.
GetPlayableHandAnyCounter(hand, card, n) ==
    Filter(hand, {c \in Cards : CanPlayOn(c, card)})

\* get_playable_hand
GetPlayableHand(hand, card, n) ==
    IF n > 0 /\ card.type \in {"DrawTwo", "DrawFour"}
    THEN Filter(hand, {c \in Cards : c = card})
    ELSE Filter(hand, {c \in Cards : CanPlayOn(c, card)})

\* contains_special_card
ContainsSpecialCard(hand, card) == \E c \in BagToSet(hand) : c = card

(* ------------------------------ a turn -------------------------------- *)
\* The piles as ensure_drawable_deck leaves them at the top of the iteration.
Pile == EnsureDeck(deck, discard, to_draw)

Discarded == EnsureDiscard(deck, discard, to_draw)

\* A turn played without advancing the cursor first.
ActingStale == current_player

\* The player whose turn it is: self.current_player = self.next_player().
Acting == NextPlayer(current_player, direction, PlayersLen)

\* self.discard.last()
Top == Discarded.top

\* The hand handed to the player in Turn.hand.
Playable == GetPlayableHand(players[Acting], Top, to_draw)

\* The forced-draw test of the turn.
MustDraw == to_draw > 0 /\ ~ContainsSpecialCard(Playable, Top)

\* What every turn does before it branches: the recycler and the cursor.
Begin ==
    /\ pc = "turn"
    /\ recycled' = EnsureBranch(deck, discard, to_draw)
    /\ supplemented' = (supplemented \/ recycled' = "supplementary")
    /\ acted' = Acting
    /\ UNCHANGED <<dealt, top_card>>

\* self.discard.last().unwrap() on an empty discard pile: the thread panics.
TurnNoTop ==
    /\ Begin
    /\ Discarded = Empty
    /\ deck' = Pile
    /\ discard' = Discarded
    /\ current_player' = Acting
    /\ pc' = "panicked"
    /\ event' = "no_top"
    /\ skipped' = -1
    /\ UNCHANGED <<players, direction, to_draw, reverses, winner>>

\* The player cannot counter the pending draw: to_draw cards go to the hand
\* and the loop continues with the next turn.
ForcedDraw ==
    /\ Begin
    /\ Discarded # Empty
    /\ MustDraw
    /\ Size(Pile) >= to_draw
    /\ \E d \in DrawMultiple(Pile, to_draw) :
          /\ deck' = Pile (-) d
          /\ players' = [players EXCEPT ![Acting] = @ (+) d]
    /\ discard' = Discarded
    /\ current_player' = Acting
    /\ to_draw' = 0
    /\ pc' = "turn"
    /\ event' = "forced"
    /\ skipped' = -1
    /\ UNCHANGED <<direction, reverses, winner>>

\* A direction flipped by every played card.
PlayedDirectionAlways(card, dir) ==
    IF dir = "Clockwise" THEN "CounterClockwise" ELSE "Clockwise"

\* A Reverse branch that sets the direction instead of flipping it.
PlayedDirectionOneWay(card, dir) ==
    IF card.type = "Reverse" THEN "CounterClockwise" ELSE dir

\* The effect of a played card on the direction.
PlayedDirection(card, dir) ==
    IF card.type = "Reverse"
    THEN (IF dir = "Clockwise" THEN "CounterClockwise" ELSE "Clockwise")
    ELSE dir

\* DrawTwo / DrawFour branches that set to_draw instead of adding to it.
PlayedToDrawResets(card, n) ==
    IF card.type = "DrawTwo" THEN 2
    ELSE IF card.type = "DrawFour" THEN 4
    ELSE n

\* The effect of a played card on to_draw.
PlayedToDraw(card, n) ==
    IF card.type = "DrawTwo" THEN U8(n + 2)
    ELSE IF card.type = "DrawFour" THEN U8(n + 4)
    ELSE n

\* A Skip branch that does not advance the cursor.
PlayedCursorStays(card, index, dir, len) == index

\* The effect of a played card on the cursor: Skip advances it once more.
PlayedCursor(card, index, dir, len) ==
    IF card.type = "Skip" THEN NextPlayer(index, dir, len) ELSE index

\* Whether the turn of a played card reaches the win check: the Skip branch
\* leaves the iteration with continue.
ReachesWinCheck(card) == card.type # "Skip"

\* execute_turn returns Played(card) with a card of the player's hand.
Played(card) ==
    /\ Begin
    /\ Discarded # Empty
    /\ ~MustDraw
    /\ BagIn(card, players[Acting])
    /\ deck' = Pile
    /\ players' = [players EXCEPT ![Acting] = @ (-) One(card)]
    /\ discard' = Push(Discarded, card)
    /\ current_player' = PlayedCursor(card, Acting, direction, PlayersLen)
    /\ direction' = PlayedDirection(card, direction)
    /\ reverses' = IF card.type = "Reverse" THEN reverses + 1 ELSE reverses
    /\ skipped' = IF card.type = "Skip" THEN current_player' ELSE -1
    /\ to_draw' = PlayedToDraw(card, to_draw)
    /\ event' = "played"
    /\ IF ReachesWinCheck(card) /\ players'[Acting] = EmptyBag
       THEN pc' = "won" /\ winner' = Acting
       ELSE pc' = "turn" /\ winner' = winner

\* execute_turn returns Played(card) with a card the hand does not hold:
\* position(..) is None and unwrap panics.
PlayedAbsent(card) ==
    /\ Begin
    /\ Discarded # Empty
    /\ ~MustDraw
    /\ ~BagIn(card, players[Acting])
    /\ deck' = Pile
    /\ discard' = Discarded
    /\ current_player' = Acting
    /\ pc' = "panicked"
    /\ event' = "absent"
    /\ skipped' = -1
    /\ UNCHANGED <<players, direction, to_draw, reverses, winner>>

\* The number of cards the Drew branch asks of the pile.
DrewAmount(n) == IF n = 0 THEN U8(n + 1) ELSE n

\* execute_turn returns Drew and the pile holds the cards asked for.
Drew ==
    /\ Begin
    /\ Discarded # Empty
    /\ ~MustDraw
    /\ Size(Pile) >= DrewAmount(to_draw)
    /\ \E d \in DrawMultiple(Pile, DrewAmount(to_draw)) :
          /\ deck' = Pile (-) d
          /\ players' = [players EXCEPT ![Acting] = @ (+) d]
    /\ discard' = Discarded
    /\ current_player' = Acting
    /\ to_draw' = 0
    /\ event' = "drew"
    /\ IF players'[Acting] = EmptyBag
       THEN pc' = "won" /\ winner' = Acting
       ELSE pc' = "turn" /\ winner' = winner
    /\ skipped' = -1
    /\ UNCHANGED <<direction, reverses>>

\* execute_turn returns Drew and the pile holds fewer cards than asked for,
\* draw_multiple being best-effort: the hand takes what the pile has.
DrewShort ==
    /\ Begin
    /\ Discarded # Empty
    /\ ~MustDraw
    /\ Size(Pile) < DrewAmount(to_draw)
    /\ deck' = EmptyBag
    /\ players' = [players EXCEPT ![Acting] = @ (+) Pile]
    /\ discard' = Discarded
    /\ current_player' = Acting
    /\ to_draw' = 0
    /\ event' = "drew"
    /\ IF players'[Acting] = EmptyBag
       THEN pc' = "won" /\ winner' = Acting
       ELSE pc' = "turn" /\ winner' = winner
    /\ skipped' = -1
    /\ UNCHANGED <<direction, reverses>>

\* execute_turn returns Drew and the pile holds fewer cards than asked for,
\* draw_multiple failing: the thread panics.
DrewFails ==
    /\ Begin
    /\ Discarded # Empty
    /\ ~MustDraw
    /\ Size(Pile) < DrewAmount(to_draw)
    /\ deck' = Pile
    /\ discard' = Discarded
    /\ current_player' = Acting
    /\ pc' = "panicked"
    /\ event' = "short"
    /\ skipped' = -1
    /\ UNCHANGED <<players, direction, to_draw, reverses, winner>>

Next ==
    \/ Deal
    \/ DealDone
    \/ Seed
    \/ TurnNoTop
    \/ ForcedDraw
    \/ \E card \in Cards : Played(card)
    \/ \E card \in Cards : PlayedAbsent(card)
    \/ Drew
    \/ DrewShort
    \/ DrewFails

Spec == Init /\ [][Next]_vars

(* ------------------------------ claims -------------------------------- *)
RECURSIVE HandCards(_)
\* The cards held by the first n players of the roster.
HandCards(n) ==
    IF n = 0 THEN 0 ELSE Size(players[n - 1]) + HandCards(n - 1)

\* |draw pile| + |discard pile| + the sum of |hand| over the roster.
CardsInPlay == Size(deck) + Length(discard) + HandCards(PlayersLen)

\* C1: as long as no supplementary deck was appended, the draw pile, the
\* discard pile and the hands together hold as many cards as Deck::generate
\* made at setup, in every state of the run.
C1_Conservation == ~supplemented => CardsInPlay = Size(Generate)

\* C1 witness: a normal recycle moved the discard pile into the draw pile
\* after turns that drew and played, and the count is the generated one.
C1_Witness ==
    /\ recycled = "discard"
    /\ ~supplemented
    /\ \E i \in DOMAIN players : Size(players[i]) > HandSize
    /\ CardsInPlay = Size(Generate)

\* C2: a player whose hand is empty after the card they played is recorded as
\* the winner and the run is over, whatever the type of the card; so no turn
\* begins while a hand is empty.
C2_WinDetected ==
    /\ (event = "played" /\ players[acted] = EmptyBag)
          => (pc = "won" /\ winner = acted)
    /\ pc = "turn" => \A i \in DOMAIN players : players[i] # EmptyBag

\* C3: the hand offered in a turn is a sub-bag of the player's hand; under a
\* pending draw on a DrawTwo or DrawFour it holds only cards equal to the
\* top card; otherwise it holds exactly the cards of the hand that can be
\* played on the top card.
C3_Legality ==
    (pc = "turn" /\ Discarded # Empty) =>
        /\ Playable \sqsubseteq players[Acting]
        /\ (to_draw > 0 /\ IsStack(Top)) =>
              \A c \in BagToSet(Playable) : c = Top /\ c.type = Top.type
        /\ ~(to_draw > 0 /\ IsStack(Top)) =>
              \A c \in Cards :
                 CopiesIn(c, Playable) =
                    IF CanPlayOn(c, Top) THEN CopiesIn(c, players[Acting])
                    ELSE 0

\* C3 witness: a turn under a pending draw whose player holds a card equal
\* to the stack card on top and another stack card that is not offered.
C3_Witness ==
    /\ pc = "turn"
    /\ Discarded # Empty
    /\ to_draw > 0
    /\ Top = DrawTwo(Red)
    /\ BagIn(DrawFour, players[Acting])
    /\ Playable = One(DrawTwo(Red))
\* A step of the turn loop in which a card was played.
PlayedStep ==
    pc = "turn" /\ event' = "played" /\ Length(discard') > Length(discard)

\* C4: a turn that starts under a pending draw of n > 0 with no card equal
\* to the discard top in the acting hand moves exactly n cards from the draw
\* pile to that hand, resets to_draw, asks no decision, leaves the discard
\* pile as it is and ends.
C4_ForcedDraw ==
    [][(/\ pc = "turn"
        /\ to_draw > 0
        /\ ~ContainsSpecialCard(players[Acting], discard.top))
       => /\ event' = "forced"
          /\ Size(players'[Acting]) = Size(players[Acting]) + to_draw
          /\ players[Acting] \sqsubseteq players'[Acting]
          /\ Size(deck') = Size(deck) - to_draw
          /\ deck' \sqsubseteq deck
          /\ discard' = discard
          /\ to_draw' = 0
          /\ pc' = "turn"]_vars

\* C5: a turn whose decision is Drew moves exactly 1 card from the draw pile
\* to the hand when to_draw was 0, and exactly to_draw cards otherwise, and
\* leaves to_draw at 0.
C5_Drew ==
    [][(pc = "turn" /\ event' \in {"drew", "short"})
       => /\ Size(players'[Acting]) =
                Size(players[Acting]) + (IF to_draw = 0 THEN 1 ELSE to_draw)
          /\ players[Acting] \sqsubseteq players'[Acting]
          /\ Size(deck') = Size(deck) - (IF to_draw = 0 THEN 1 ELSE to_draw)
          /\ to_draw' = 0]_vars

\* C6: when ensure_drawable_deck returns at the top of a turn, the draw pile
\* holds at least to_draw cards.
C6_Drawable ==
    /\ pc = "turn" => Size(Pile) >= to_draw
    /\ recycled # "no" => Size(deck) >= to_draw

\* C6 witness: the recycler appended a supplementary deck for a pending draw
\* that neither pile could serve, and the pile serves it now.
C6_Witness ==
    /\ recycled = "supplementary"
    /\ to_draw > 0
    /\ Size(deck) >= to_draw

\* C7: in a turn whose recycler replenished the draw pile the top card stays
\* in play, and the engine never takes the top of an empty discard pile.
C7_TopSurvives ==
    /\ recycled # "no" => discard # Empty
    /\ event # "no_top"

\* C8: a played Skip leaves the cursor two rotation steps from where the turn
\* began, on the skipped player, who is told of the skip with no drawn cards,
\* whose hand is untouched and who gets no decision: the next turn is that of
\* the player one step further.
C8_Skip ==
    [][/\ (PlayedStep /\ discard'.top.type = "Skip")
          => /\ acted' = NextPlayer(current_player, direction, PlayersLen)
             /\ current_player' = NextPlayer(acted', direction, PlayersLen)
             /\ skipped' = current_player'
             /\ direction' = direction
             /\ pc' = "turn"
             /\ (current_player' # acted'
                   => players'[current_player'] = players[current_player'])
       /\ (pc = "turn" /\ event = "played" /\ discard.top.type = "Skip")
          => /\ acted' = NextPlayer(current_player, direction, PlayersLen)
             /\ (PlayersLen > 1 => acted' # current_player)]_vars

\* C8 witness: in a roster of three, a Skip was played and the cursor is on
\* the skipped player, who holds the hand they were dealt.
C8_Witness ==
    /\ PlayersLen = 3
    /\ pc = "turn"
    /\ event = "played"
    /\ discard.top.type = "Skip"
    /\ current_player # acted
    /\ skipped = current_player
    /\ current_player = NextPlayer(acted, direction, PlayersLen)
    /\ Size(players[current_player]) = HandSize

\* What a played card adds to to_draw.
Penalty(card) ==
    IF card.type = "DrawTwo" THEN 2 ELSE IF card.type = "DrawFour" THEN 4 ELSE 0

\* C9: a played DrawTwo adds 2 and a played DrawFour adds 4 to to_draw, on
\* top of what is pending, and nothing is drawn in that turn: a DrawTwo on a
\* DrawTwo with 2 pending leaves 4 pending.
C9_Stacking ==
    [][PlayedStep
       => /\ to_draw' = to_draw + Penalty(discard'.top)
          /\ deck' = deck
          /\ Size(players'[Acting]) = Size(players[Acting]) - 1
          /\ (/\ to_draw = 2
              /\ discard.top.type = "DrawTwo"
              /\ discard'.top = discard.top) => to_draw' = 4]_vars

\* C9 witness: a DrawTwo was played on the DrawTwo that made 2 pending.
C9_Witness ==
    /\ event = "played"
    /\ to_draw = 4
    /\ discard.top = DrawTwo(Red)
    /\ BagIn(DrawTwo(Red), discard.under)

\* C10: the direction is the original one after an even number of Reverse
\* effects and the other one after an odd number, and after an even number
\* next_player gives every cursor its original successor.
C10_Direction ==
    /\ direction =
          IF reverses % 2 = 0 THEN "Clockwise" ELSE "CounterClockwise"
    /\ reverses % 2 = 0 =>
          \A c \in DOMAIN players :
             NextPlayer(c, direction, PlayersLen) = (c + 1) % PlayersLen

\* C10 witness: two Reverse effects in a roster of three.
C10_Witness == reverses = 2 /\ PlayersLen = 3 /\ direction = "Clockwise"

(* ---------------------------------------------------------------------- *)
\* Wild and DrawFour cards held by a bag.
Wilds(b) == Size(Filter(b, {Wild, DrawFour}))

\* C11: when the turn loop starts, the discard pile holds exactly one card and
\* it is neither Wild nor DrawFour, no card is pending and the direction is
\* Clockwise; a seed iteration that draws a Wild or DrawFour leaves the pile
\* and the discard pile as they were, and the iteration that ends the loop
\* moves one card of another type from the pile to the discard pile.
C11_Seeded ==
    [][pc = "seed" =>
          /\ top_card'.type \in {"Wild", "DrawFour"}
                => /\ pc' = "seed"
                   /\ deck' = deck
                   /\ discard' = discard
          /\ pc' = "turn"
                => /\ Length(discard') = 1
                   /\ discard'.top.type \notin {"Wild", "DrawFour"}
                   /\ deck = deck' (+) One(discard'.top)
                   /\ Wilds(deck') = Wilds(deck)
                   /\ to_draw' = 0
                   /\ direction' = "Clockwise"
                   /\ event' = "none"]_vars

\* The turn loop is about to start on a seed found after a DrawFour was drawn
\* and put back.
C11_Witness ==
    /\ pc = "seed"
    /\ top_card = DrawFour
    /\ BagIn(DrawFour, deck)
    /\ discard = Empty
    /\ ENABLED (Seed /\ pc' = "turn")

(* ---------------------------------------------------------------------- *)
\* GameState::new for rosters up to one player more than a deck of one-card
\* hands can serve: the deal and the seed loop on piles that run out.
InitCrowded ==
    /\ deck = Generate
    /\ discard = Empty
    /\ \E n \in 1..(Size(Generate) + 1) :
          players = [i \in 0..(n - 1) |-> EmptyBag]
    /\ current_player = 0
    /\ direction = "Clockwise"
    /\ to_draw = 0
    /\ pc = "deal"
    /\ dealt = 0
    /\ top_card = NoCard
    /\ recycled = "no"
    /\ supplemented = FALSE
    /\ event = "none"
    /\ acted = -1
    /\ skipped = -1
    /\ reverses = 0
    /\ winner = -1

SpecCrowded == InitCrowded /\ [][Next]_vars

(* ---------------------------------------------------------------------- *)
\* C12: a play that reaches the discard pile is of a card of the hand offered
\* in Turn.hand, and a Played decision the engine ends the game on changes
\* no hand, pile or pending draw.
C12_Protocol ==
    [][pc = "turn" =>
          /\ PlayedStep => BagIn(discard'.top, Playable)
          /\ event' = "absent"
                => /\ pc' = "panicked"
                   /\ players' = players
                   /\ discard' = discard
                   /\ to_draw' = to_draw
                   /\ direction' = direction]_vars

(* ---------------------------------------------------------------------- *)
\* The pile of a fresh deck holds a full hand for every player of the roster.
CanDeal == Size(Generate) >= PlayersLen * HandSize

\* C13: the deal fills the hands in roster order, and when the turn loop
\* starts every hand holds exactly HandSize cards taken from the pile; on a
\* roster the pile cannot serve, the engine never enters the turn loop: the
\* deal panics, or it leaves the seed loop an empty pile to panic on.
C13_Deal ==
    /\ pc = "deal"
          => \A i \in DOMAIN players :
                /\ i >= dealt => players[i] = EmptyBag
                /\ (i < dealt /\ CanDeal) => Size(players[i]) = HandSize
    /\ (pc \in {"seed", "turn"} /\ event = "none" /\ CanDeal)
          => /\ \A i \in DOMAIN players : Size(players[i]) = HandSize
             /\ CardsInPlay = Size(Generate)
    /\ ~CanDeal
          => /\ pc \in {"deal", "seed", "panicked"}
             /\ event \in {"none", "short", "no_card"}
             /\ pc = "seed" => (deck = EmptyBag /\ discard = Empty)

\* Setup has failed on a roster the pile could not serve: the last hand got
\* nothing and the seed loop found no card to draw.
C13_Witness ==
    /\ ~CanDeal
    /\ pc = "panicked"
    /\ event = "no_card"
    /\ players[PlayersLen - 1] = EmptyBag
    /\ Size(players[0]) = HandSize

(* ---------------------------------------------------------------------- *)
\* C14: the seed loop never loops forever: whatever pile the deal has left,
\* an iteration can end the loop, with a first discard or with a panic.
C14_SeedEnds == pc = "seed" => ENABLED (Seed /\ pc' # "seed")

(* ---------------------------------------------------------------------- *)
\* C15: ensure_drawable_deck leaves both piles as they are when the pile
\* holds at least to_draw cards; when it holds fewer and the discard pile
\* holds at least to_draw, the call empties the discard pile and the pile
\* becomes its former cards plus every card of the former discard pile, the
\* top card included.
C15_Recycle ==
    [][pc = "turn" =>
          /\ Size(deck) >= to_draw
                => /\ Pile = deck
                   /\ Discarded = discard
                   /\ recycled' = "no"
          /\ (Size(deck) < to_draw /\ Length(discard) >= to_draw)
                => /\ Discarded = Empty
                   /\ Pile = (deck (+) discard.under) (+) One(discard.top)
                   /\ recycled' = "discard"
                   /\ discard' = Empty
                   /\ deck' = (deck (+) discard.under) (+) One(discard.top)
                   /\ Size(deck') = Size(deck) + Length(discard)]_vars

\* A turn has recycled the discard pile: the former top card, a DrawTwo or a
\* DrawFour, is in the pile and the discard pile is empty.
C15_Witness ==
    /\ recycled = "discard"
    /\ event = "no_top"
    /\ discard = Empty
    /\ to_draw > 0
    /\ \E c \in BagToSet(deck) : IsStack(c)
    /\ Size(deck) >= to_draw

(* ---------------------------------------------------------------------- *)
\* C16: when neither the pile nor the discard pile holds to_draw cards, the
\* turn does not fail: the discard pile is dropped, the pile grows by one
\* fresh deck, and the turn goes on to a forced draw, a play or a draw.
C16_Degenerate ==
    [][(pc = "turn" /\ Size(deck) < to_draw /\ Length(discard) < to_draw)
          => /\ recycled' = "supplementary"
             /\ Discarded = Empty
             /\ Size(Pile) = Size(deck) + Size(Generate)
             /\ pc' # "panicked"
             /\ event' \in {"forced", "played", "drew"}]_vars

(* ---------------------------------------------------------------------- *)
\* C17: a play takes exactly one copy of the played card out of the acting
\* hand and pushes that card on the discard pile; to_draw grows by 2 on a
\* DrawTwo, by 4 on a DrawFour and is otherwise kept; the direction flips on
\* a Reverse and is otherwise kept; the cursor moves past the acting player
\* on a Skip only; a Number or a Wild changes none of the three.
C17_Effects ==
    [][PlayedStep =>
          LET card == discard'.top
              player == NextPlayer(current_player, direction, PlayersLen)
          IN  /\ BagIn(card, players[player])
              /\ players'[player] = players[player] (-) One(card)
              /\ Size(players'[player]) = Size(players[player]) - 1
              /\ discard'.under = All(discard)
              /\ Length(discard') = Length(discard) + 1
              /\ to_draw' = IF card.type = "DrawTwo" THEN to_draw + 2
                            ELSE IF card.type = "DrawFour" THEN to_draw + 4
                            ELSE to_draw
              /\ direction' # direction <=> card.type = "Reverse"
              /\ current_player' =
                    IF card.type = "Skip"
                    THEN NextPlayer(player, direction, PlayersLen)
                    ELSE player
              /\ card.type \in {"Number", "Wild"}
                    => /\ to_draw' = to_draw
                       /\ direction' = direction
                       /\ current_player' = player]_vars

\* A Wild was played while the direction was CounterClockwise: the direction
\* and the pending draw are as before and the cursor is on its player.
C17_Witness ==
    /\ event = "played"
    /\ discard.top = Wild
    /\ direction = "CounterClockwise"
    /\ reverses = 1
    /\ to_draw = 0
    /\ current_player = acted
    /\ PlayersLen = 3

(* ---------------------------------------------------------------------- *)
\* C18: a turn changes no hand but that of its player, the one next_player
\* gives at the start of the turn; the hand of a skipped player is as it was.
C18_HandFrame ==
    [][pc = "turn" =>
          LET player == NextPlayer(current_player, direction, PlayersLen)
          IN  /\ acted' = player
              /\ \A i \in DOMAIN players :
                    i # player => players'[i] = players[i]
              /\ (skipped' # -1 /\ skipped' # player)
                    => players'[skipped'] = players[skipped']
              /\ DOMAIN players' = DOMAIN players]_vars

\* After a draw in a game of three, the acting hand has grown and the two
\* other hands are the ones dealt.
C18_Witness ==
    /\ PlayersLen = 3
    /\ event = "drew"
    /\ Size(players[acted]) > HandSize
    /\ \A i \in DOMAIN players : i # acted => Size(players[i]) = HandSize

(* ---------------------------------------------------------------------- *)
\* C19: at the start of every turn to_draw is 0 or even, and while it is
\* positive the top of the discard pile is a DrawTwo or a DrawFour; to_draw
\* grows by the penalty of each stack card played and goes back to 0 only
\* through a forced draw or a Drew decision.
C19_Pending ==
    [][pc = "turn" =>
          /\ to_draw % 2 = 0
          /\ to_draw > 0 => IsStack(discard.top)
          /\ PlayedStep => to_draw' = to_draw + Penalty(discard'.top)
          /\ (to_draw > 0 /\ to_draw' = 0)
                => event' \in {"forced", "drew"}]_vars

(* ---------------------------------------------------------------------- *)
\* C20: next_player gives (cursor + 1) mod n when the direction is Clockwise
\* and cursor - 1, or n - 1 from seat 0, when it is CounterClockwise; a
\* Clockwise step followed by a CounterClockwise step gives the seat it began
\* on; the cursor is a seat of the roster in every state, and so is the
\* player of every turn.
C20_Rotation ==
    /\ PlayersLen >= 1
    /\ current_player \in 0..(PlayersLen - 1)
    /\ acted \in -1..(PlayersLen - 1)
    /\ NextPlayer(current_player, direction, PlayersLen) \in DOMAIN players
    /\ \A c \in 0..(PlayersLen - 1) :
          /\ NextPlayer(c, "Clockwise", PlayersLen) = (c + 1) % PlayersLen
          /\ NextPlayer(c, "CounterClockwise", PlayersLen)
                = IF c = 0 THEN PlayersLen - 1 ELSE c - 1
          /\ NextPlayer(NextPlayer(c, "Clockwise", PlayersLen),
                        "CounterClockwise", PlayersLen) = c

\* A CounterClockwise turn in a game of three began on seat 0 and was played
\* by seat 2.
C20_Witness ==
    /\ PlayersLen = 3
    /\ direction = "CounterClockwise"
    /\ event = "drew"
    /\ acted = 2
    /\ current_player = 2
    /\ reverses = 1
====
